---- MODULE Spec2Model ----
(***************************************************************************)
(* Loss families of sgimc.qa_objective (L2, Huber, Logistic) and the      *)
(* sigmoid transform, as a state machine: a caller owns a prediction and  *)
(* a target array, constructs one loss-family instance and calls its      *)
(* v_func / g_func / h_func / score methods.                              *)
(*                                                                         *)
(* Numbers.  The code computes in binary floating point.  The model uses  *)
(* a scaled-down binary format: a number is an integer count of units of  *)
(* 2^-FracBits, every arithmetic operation rounds its exact result to the *)
(* nearest unit (ties to even).  One is the number 1.0.  The inputs that  *)
(* are drawn are whole numbers, for which the L2 and Huber arithmetic is  *)
(* exact, as it is in double precision.  exp and log1p are evaluated by   *)
(* rational approximations rounded to the format.                         *)
(***************************************************************************)
EXTENDS Integers, Sequences, FiniteSets, TLC

VARIABLES obj, mem, lastOp, repeated

vars == <<obj, mem, lastOp, repeated>>

\* ---------------------------------------------------------------- bounds
FracBits == 2
MaxVal == 2
MaxLen == 2

\* ------------------------------------------------------------ arithmetic
One == 2 ^ FracBits
Half == One \div 2

Abs(x) == IF x < 0 THEN -x ELSE x
Sign(x) == IF x > 0 THEN One ELSE IF x < 0 THEN -One ELSE 0
Minimum(a, b) == IF a < b THEN a ELSE b

\* n / d (d > 0) rounded to the nearest integer, ties to even
RoundDiv(n, d) ==
    LET q == n \div d
        r == n % d
    IN  IF 2 * r > d \/ (2 * r = d /\ q % 2 = 1) THEN q + 1 ELSE q

Mul(a, b) == RoundDiv(a * b, One)
Div(a, b) == RoundDiv(a * One, b)

\* exp(-n) for a whole number n >= 0: e^-1 is taken as 1000/2718 and each
\* factor is rounded to the format
RECURSIVE ExpNegInt(_)
ExpNegInt(n) == IF n = 0 THEN One ELSE RoundDiv(ExpNegInt(n - 1) * 1000, 2718)

\* np.exp at a non-positive argument x (its whole part)
Exp(x) == ExpNegInt((-x) \div One)

\* np.log1p at 0 <= e <= 1, by the rational approximation
\* e(6+e)/(6+4e) of log(1+e), rounded to the format
Log1p(e) == RoundDiv(e * (6 * One + e), 6 * One + 4 * e)

\* ---------------------------------------------------------------- arrays
\* numpy broadcasting of two 1-d arrays: the common length, or -1 when the
\* shapes cannot be broadcast together (numpy raises ValueError)
BLen(a, b) ==
    IF Len(a) = Len(b) THEN Len(a)
    ELSE IF Len(a) = 1 THEN Len(b)
    ELSE IF Len(b) = 1 THEN Len(a)
    ELSE -1

At(a, i) == IF Len(a) = 1 THEN a[1] ELSE a[i]

Array(s) == [kind |-> "array", val |-> s]
Scalar(x) == [kind |-> "scalar", val |-> <<x>>]
ValueError == [kind |-> "ValueError", val |-> <<>>]
NoResult == [kind |-> "none", val |-> <<>>]

RECURSIVE Sum(_)
Sum(s) == IF s = <<>> THEN 0 ELSE Head(s) + Sum(Tail(s))

\* ------------------------------------------------------------- L2 family
\* v_func with the factor 0.5 left out
L2_v_func_NoHalf(predict, target) ==
    IF BLen(predict, target) < 0 THEN ValueError
    ELSE Array([i \in 1..BLen(predict, target) |->
                  LET d == At(predict, i) - At(target, i)
                  IN  Mul(d, d)])

L2_v_func(predict, target) ==
    IF BLen(predict, target) < 0 THEN ValueError
    ELSE Array([i \in 1..BLen(predict, target) |->
                  LET d == At(predict, i) - At(target, i)
                  IN  Mul(Half, Mul(d, d))])

L2_g_func(predict, target) ==
    IF BLen(predict, target) < 0 THEN ValueError
    ELSE Array([i \in 1..BLen(predict, target) |->
                  At(predict, i) - At(target, i)])

L2_h_func(predict, target) ==
    Array([i \in 1..Len(target) |-> One])

\* sklearn's mean_squared_error: inconsistent lengths raise ValueError
L2_score(predict, target) ==
    IF Len(predict) # Len(target) THEN ValueError
    ELSE Scalar(RoundDiv(
            Sum([i \in 1..Len(target) |->
                   Mul(target[i] - predict[i], target[i] - predict[i])]),
            Len(target)))

\* ---------------------------------------------------------- Huber family
\* the linear branch without halving eps: eps * (resid - eps)
HuberLinear_NoHalving(eps, resid) == Mul(eps, resid - eps)

\* the two branches of v_func's np.where
HuberLinear(eps, resid) == Mul(eps, resid - RoundDiv(eps, 2))
HuberQuadratic(resid) == Mul(Half, Mul(resid, resid))

Huber_v_func(eps, predict, target) ==
    IF BLen(predict, target) < 0 THEN ValueError
    ELSE Array([i \in 1..BLen(predict, target) |->
                  LET resid == Abs(At(predict, i) - At(target, i))
                  IN  IF resid > eps
                      THEN HuberLinear(eps, resid)
                      ELSE HuberQuadratic(resid)])

Huber_g_func(eps, predict, target) ==
    IF BLen(predict, target) < 0 THEN ValueError
    ELSE Array([i \in 1..BLen(predict, target) |->
                  LET resid == At(predict, i) - At(target, i)
                  IN  IF Abs(resid) > eps
                      THEN Mul(eps, Sign(resid))
                      ELSE resid])

\* h_func with a strict comparison, so that |resid| = eps gets 0
Huber_h_func_Strict(eps, predict, target) ==
    IF BLen(predict, target) < 0 THEN ValueError
    ELSE Array([i \in 1..BLen(predict, target) |->
                  IF Abs(At(predict, i) - At(target, i)) < eps
                  THEN One ELSE 0])

Huber_h_func(eps, predict, target) ==
    IF BLen(predict, target) < 0 THEN ValueError
    ELSE Array([i \in 1..BLen(predict, target) |->
                  IF Abs(At(predict, i) - At(target, i)) <= eps
                  THEN One ELSE 0])

\* ---------------------------------------------------------------- sigmoid
\* sigmoid without the final np.where: 1/(1+exp(-|x|)) for every x
sigmoid_NoWhere(x) == Div(One, One + Exp(-Abs(x)))

sigmoid(x) ==
    LET out == Div(One, One + Exp(-Abs(x)))
    IN  IF x > 0 THEN out ELSE One - out

\* sigmoid applied to an array
sigmoid_array(x) == Array([i \in 1..Len(x) |-> sigmoid(x[i])])

\* ------------------------------------------------------- Logistic family
\* v_func taking the minimum of the raw logit, the target forgotten
Log_v_func_NoTarget(logit, target) ==
    IF BLen(target, logit) # Len(logit) THEN ValueError
    ELSE Array([i \in 1..Len(logit) |->
                  Log1p(Exp(-Abs(logit[i]))) - Minimum(logit[i], 0)])

Log_v_func(logit, target) ==
    IF BLen(target, logit) # Len(logit) THEN ValueError
    ELSE Array([i \in 1..Len(logit) |->
                  Log1p(Exp(-Abs(logit[i])))
                      - Minimum(Mul(At(target, i), logit[i]), 0)])

Log_g_func(logit, target) ==
    IF BLen(logit, target) < 0 THEN ValueError
    ELSE Array([i \in 1..BLen(logit, target) |->
                  Mul(sigmoid(Mul(At(logit, i), At(target, i))), At(target, i))
                      - At(target, i)])

\* h_func with the probability multiplied by the target, as g_func does
Log_h_func_Targeted(logit, target) ==
    IF BLen(logit, target) < 0 THEN ValueError
    ELSE Array([i \in 1..BLen(logit, target) |->
                  LET prob == Mul(sigmoid(At(logit, i)), At(target, i))
                  IN  Mul(prob, One - prob)])

Log_h_func(logit, target) ==
    Array([i \in 1..Len(logit) |->
             LET prob == sigmoid(logit[i])
             IN  Mul(prob, One - prob)])

\* score labelling logit >= 0 as +1
Log_score_GeqZero(logit, target) ==
    IF Len(logit) # Len(target) THEN ValueError
    ELSE LET predict == [i \in 1..Len(logit) |->
                           Mul(2 * One, IF logit[i] >= 0 THEN One ELSE 0) - One]
             hits == Cardinality({i \in 1..Len(target) : target[i] = predict[i]})
         IN  Scalar(One - RoundDiv(hits * One, Len(target)))

\* sklearn's accuracy_score: inconsistent lengths raise ValueError
Log_score(logit, target) ==
    IF Len(logit) # Len(target) THEN ValueError
    ELSE LET predict == [i \in 1..Len(logit) |->
                           Mul(2 * One, IF logit[i] > 0 THEN One ELSE 0) - One]
             hits == Cardinality({i \in 1..Len(target) : target[i] = predict[i]})
         IN  Scalar(One - RoundDiv(hits * One, Len(target)))

\* the in-place subtraction done on the caller's logit array
LogVOut_Aliased == "predict"

\* the buffer Log v_func's in-place subtraction writes: the array np.log1p
\* returned, which is the one v_func returns
LogVOut == "ret"

\* ----------------------------------------------------------------- inputs
PredictVals == {n * One : n \in -MaxVal..MaxVal}
TargetVals == {-One, One}
EpsVals == {-One, 0, One, 2 * One}

Arrays(S) == UNION {[1..n -> S] : n \in 1..MaxLen}

NoObj == [family |-> "none", epsilon |-> 0]

Init ==
    /\ obj = NoObj
    /\ mem \in [predict : Arrays(PredictVals), target : Arrays(TargetVals),
                ret : {NoResult}]
    /\ lastOp = "none"
    /\ repeated = FALSE

\* ---------------------------------------------------------- constructors
QAObjectiveL2Loss_init ==
    /\ obj = NoObj
    /\ obj' = [family |-> "L2", epsilon |-> 0]
    /\ UNCHANGED <<mem, lastOp, repeated>>

QAObjectiveHuberLoss_init(epsilon) ==
    /\ obj = NoObj
    /\ obj' = [family |-> "Huber", epsilon |-> epsilon]
    /\ UNCHANGED <<mem, lastOp, repeated>>

QAObjectiveLogLoss_init ==
    /\ obj = NoObj
    /\ obj' = [family |-> "Log", epsilon |-> 0]
    /\ UNCHANGED <<mem, lastOp, repeated>>

\* ------------------------------------------------------------------ calls
Return(op, r) ==
    /\ mem' = [mem EXCEPT !.ret = r]
    /\ lastOp' = op
    /\ repeated' = (lastOp = op)
    /\ UNCHANGED obj

Call_L2_v_func ==
    /\ obj.family = "L2"
    /\ Return("L2.v_func", L2_v_func(mem.predict, mem.target))

Call_L2_g_func ==
    /\ obj.family = "L2"
    /\ Return("L2.g_func", L2_g_func(mem.predict, mem.target))

Call_L2_h_func ==
    /\ obj.family = "L2"
    /\ Return("L2.h_func", L2_h_func(mem.predict, mem.target))

Call_L2_score ==
    /\ obj.family \in {"L2", "Huber"}
    /\ Return("L2.score", L2_score(mem.predict, mem.target))

Call_Huber_v_func ==
    /\ obj.family = "Huber"
    /\ Return("Huber.v_func", Huber_v_func(obj.epsilon, mem.predict, mem.target))

Call_Huber_g_func ==
    /\ obj.family = "Huber"
    /\ Return("Huber.g_func", Huber_g_func(obj.epsilon, mem.predict, mem.target))

Call_Huber_h_func ==
    /\ obj.family = "Huber"
    /\ Return("Huber.h_func", Huber_h_func(obj.epsilon, mem.predict, mem.target))

\* the module-level sigmoid, applied to the prediction array
Call_sigmoid ==
    /\ mem' = [mem EXCEPT !.ret = sigmoid_array(mem.predict)]
    /\ lastOp' = "sigmoid"
    /\ repeated' = (lastOp = "sigmoid")
    /\ UNCHANGED obj

Call_Log_v_func ==
    /\ obj.family = "Log"
    /\ LET r == Log_v_func(mem.predict, mem.target)
       IN  mem' = IF r.kind = "array" /\ LogVOut # "ret"
                  THEN [mem EXCEPT ![LogVOut] = r.val, !.ret = r]
                  ELSE [mem EXCEPT !.ret = r]
    /\ lastOp' = "Log.v_func"
    /\ repeated' = (lastOp = "Log.v_func")
    /\ UNCHANGED obj

Call_Log_g_func ==
    /\ obj.family = "Log"
    /\ Return("Log.g_func", Log_g_func(mem.predict, mem.target))

Call_Log_h_func ==
    /\ obj.family = "Log"
    /\ Return("Log.h_func", Log_h_func(mem.predict, mem.target))

Call_Log_score ==
    /\ obj.family = "Log"
    /\ Return("Log.score", Log_score(mem.predict, mem.target))

Next ==
    \/ QAObjectiveL2Loss_init
    \/ \E epsilon \in EpsVals : QAObjectiveHuberLoss_init(epsilon)
    \/ QAObjectiveLogLoss_init
    \/ Call_L2_v_func
    \/ Call_L2_g_func
    \/ Call_L2_h_func
    \/ Call_L2_score
    \/ Call_Huber_v_func
    \/ Call_Huber_g_func
    \/ Call_Huber_h_func
    \/ Call_sigmoid
    \/ Call_Log_v_func
    \/ Call_Log_g_func
    \/ Call_Log_h_func
    \/ Call_Log_score

Spec == Init /\ [][Next]_vars

\* ================================================================ claims
EqualLen == Len(mem.predict) = Len(mem.target)
Neg(a) == [i \in 1..Len(a) |-> -a[i]]
Resid(i) == mem.predict[i] - mem.target[i]
ArrayOps == {"L2.v_func", "L2.g_func", "L2.h_func",
             "Huber.v_func", "Huber.g_func", "Huber.h_func",
             "Log.v_func", "Log.g_func", "Log.h_func"}

\* C1: a Huber instance never holds a non-positive epsilon (construction with
\* epsilon <= 0 fails), so no Huber function runs with such a threshold.
CE_C1_HuberEpsilonPositive ==
    obj.family = "Huber" => obj.epsilon > 0

\* C2: a value / gradient / hessian_diagonal call of any family whose
\* prediction and target arrays differ in length ends in an error and returns
\* no array.
CE_C2_LengthMismatchFails ==
    (lastOp \in ArrayOps /\ ~EqualLen) => mem.ret.kind = "ValueError"

\* C3: L2 on equal-length arrays: value[i] = 0.5*(p[i]-t[i])^2, gradient[i] =
\* p[i]-t[i], and hessian_diagonal is the all-ones array of the inputs' length.
C3_L2Formulas ==
    EqualLen =>
      /\ lastOp = "L2.v_func" =>
           /\ mem.ret.kind = "array"
           /\ Len(mem.ret.val) = Len(mem.predict)
           /\ \A i \in 1..Len(mem.predict) :
                2 * One * mem.ret.val[i] = Resid(i) * Resid(i)
      /\ lastOp = "L2.g_func" =>
           /\ mem.ret.kind = "array"
           /\ Len(mem.ret.val) = Len(mem.predict)
           /\ \A i \in 1..Len(mem.predict) : mem.ret.val[i] = Resid(i)
      /\ lastOp = "L2.h_func" =>
           /\ mem.ret.kind = "array"
           /\ Len(mem.ret.val) = Len(mem.predict)
           /\ \A i \in 1..Len(mem.predict) : mem.ret.val[i] = One

W_C3_L2Example ==
    /\ lastOp = "L2.v_func"
    /\ mem.predict = <<One, 2 * One>>
    /\ mem.target = <<One, One>>
    /\ mem.ret = Array(<<0, Half>>)

\* C4: Huber with epsilon > 0, residual r: inside the threshold (|r| <= eps)
\* value is the L2 value 0.5*r^2 and gradient is r; outside it value is
\* eps*(|r| - eps/2) and gradient is eps with the sign of r; at |r| = eps the
\* two value branches give the same number.
C4_HuberValueGradient ==
    (obj.family = "Huber" /\ obj.epsilon > 0 /\ EqualLen) =>
      LET eps == obj.epsilon IN
      /\ HuberLinear(eps, eps) = HuberQuadratic(eps)
      /\ lastOp = "Huber.v_func" =>
           /\ mem.ret.kind = "array"
           /\ \A i \in 1..Len(mem.predict) :
                LET r == Resid(i)
                    v == mem.ret.val[i]
                IN  /\ Abs(r) <= eps =>
                         /\ v = L2_v_func(mem.predict, mem.target).val[i]
                         /\ 2 * One * v = r * r
                    /\ Abs(r) > eps =>
                         2 * One * v = eps * (2 * Abs(r) - eps)
                    /\ Abs(r) = eps =>
                         /\ v = HuberLinear(eps, Abs(r))
                         /\ v = HuberQuadratic(Abs(r))
      /\ lastOp = "Huber.g_func" =>
           /\ mem.ret.kind = "array"
           /\ \A i \in 1..Len(mem.predict) :
                LET r == Resid(i)
                    g == mem.ret.val[i]
                IN  /\ Abs(r) <= eps => g = r
                    /\ Abs(r) > eps =>
                         /\ Abs(g) = eps
                         /\ (g > 0) = (r > 0)

W_C4_HuberBothRegimes ==
    /\ lastOp = "Huber.v_func"
    /\ obj.epsilon = One
    /\ mem.predict = <<0, 2 * One>>
    /\ mem.target = <<-One, -One>>
    /\ mem.ret = Array(<<Half, 2 * One + Half>>)

\* C5: Huber with epsilon > 0: hessian_diagonal[i] is 1 where |r| <= eps and 0
\* elsewhere, and it is 1 exactly on the entries where value takes its
\* quadratic branch 0.5*r^2 and gradient returns the raw residual, the
\* boundary |r| = eps included.
C5_HuberHessianPartition ==
    (obj.family = "Huber" /\ obj.epsilon > 0 /\ EqualLen
       /\ lastOp = "Huber.h_func") =>
      LET eps == obj.epsilon
          v == Huber_v_func(eps, mem.predict, mem.target).val
          g == Huber_g_func(eps, mem.predict, mem.target).val
      IN
      /\ mem.ret.kind = "array"
      /\ Len(mem.ret.val) = Len(mem.predict)
      /\ \A i \in 1..Len(mem.predict) :
           LET r == Resid(i)
               h == mem.ret.val[i]
           IN  /\ h = IF Abs(r) <= eps THEN One ELSE 0
               /\ (h = One) <=> (2 * One * v[i] = r * r /\ g[i] = r)

W_C5_HuberExample ==
    /\ lastOp = "Huber.h_func"
    /\ obj.epsilon = One
    /\ mem.predict = <<-One, 2 * One>>
    /\ mem.target = <<-One, -One>>
    /\ mem.ret.val[1] = One /\ mem.ret.val[2] = 0
    /\ Huber_v_func(One, mem.predict, mem.target).val[2] = 2 * One + Half
    /\ Huber_g_func(One, mem.predict, mem.target).val[2] = One

\* C6: Logistic score on equal-length arrays with targets in {-1,+1}: an
\* entry is labelled +1 when logit > 0 and -1 otherwise (logit = 0 gives -1),
\* and the score is the fraction of entries whose label differs from the
\* target, a number between 0 and 1.
C6_LogScoreMisclassification ==
    (lastOp = "Log.score" /\ EqualLen
       /\ \A i \in 1..Len(mem.target) : mem.target[i] \in {-One, One}) =>
      LET n == Len(mem.target)
          label(i) == IF mem.predict[i] > 0 THEN One ELSE -One
          wrong == Cardinality({i \in 1..n : label(i) # mem.target[i]})
          s == mem.ret.val[1]
      IN  /\ mem.ret.kind = "scalar"
          /\ 0 <= s /\ s <= One
          /\ 2 * Abs(s * n - wrong * One) <= n
          /\ wrong = 0 => s = 0
          /\ wrong = n => s = One

W_C6_ZeroLogitLabelledMinus ==
    /\ lastOp = "Log.score"
    /\ mem.predict = <<0>>
    /\ mem.target = <<One>>
    /\ mem.ret = Scalar(One)

\* C7: Logistic value is unchanged by flipping the signs of logit and target
\* together, and with targets in {-1,+1} it is a function of the product
\* target*logit alone.
C7_LogValueSymmetry ==
    (lastOp = "Log.v_func" /\ EqualLen
       /\ \A i \in 1..Len(mem.target) : mem.target[i] \in {-One, One}) =>
      /\ mem.ret.kind = "array"
      /\ mem.ret = Log_v_func(Neg(mem.predict), Neg(mem.target))
      /\ \A i \in 1..Len(mem.predict) :
           mem.ret.val[i] =
             Log_v_func(<<Mul(mem.target[i], mem.predict[i])>>, <<One>>).val[1]

W_C7_NegativeMargin ==
    /\ lastOp = "Log.v_func"
    /\ mem.ret.kind = "array"
    /\ \E i \in 1..Len(mem.predict) :
         /\ i <= Len(mem.target)
         /\ mem.predict[i] > 0
         /\ mem.target[i] = -One
         /\ mem.ret.val[i] = Log1p(Exp(-mem.predict[i])) + mem.predict[i]

\* C8 (as stated): sigmoid(x) is t = 1/(1+exp(-|x|)) for x > 0 and 1-t
\* otherwise, sigmoid(-x) = 1 - sigmoid(x), sigmoid(0) = 0.5 and
\* 0 < sigmoid(x) < 1 strictly for every x, however large.
CE_C8_SigmoidStrictlyInside ==
    lastOp = "sigmoid" =>
      \A i \in 1..Len(mem.predict) :
        LET x == mem.predict[i]
            s == mem.ret.val[i]
        IN  /\ sigmoid(-x) = One - s
            /\ x = 0 => s = Half
            /\ 0 < s /\ s < One

\* C8 (amended): 0 <= sigmoid(x) <= 1 for every x, strictly inside while
\* 1 + exp(-|x|) still exceeds 1 in the number format; once exp(-|x|) is
\* absorbed the result is exactly 1 for x > 0 and exactly 0 for x < 0.
\* sigmoid(-x) = 1 - sigmoid(x) and sigmoid(0) = 0.5 hold throughout.
C8_SigmoidClosedRange ==
    lastOp = "sigmoid" =>
      /\ mem.ret.kind = "array"
      /\ Len(mem.ret.val) = Len(mem.predict)
      /\ \A i \in 1..Len(mem.predict) :
           LET x == mem.predict[i]
               s == mem.ret.val[i]
               absorbed == One + Exp(-Abs(x)) = One
           IN  /\ sigmoid(-x) = One - s
               /\ x = 0 => s = Half
               /\ 0 <= s /\ s <= One
               /\ ~absorbed => (0 < s /\ s < One)
               /\ (absorbed /\ x > 0) => s = One
               /\ (absorbed /\ x < 0) => s = 0
               /\ x > 0 => 2 * s > One
               /\ x < 0 => 2 * s < One

W_C8_Saturated ==
    /\ lastOp = "sigmoid"
    /\ \E i \in 1..Len(mem.predict) :
         /\ mem.predict[i] > 0
         /\ mem.ret.val[i] = One
    /\ \E i \in 1..Len(mem.predict) :
         /\ mem.predict[i] = -One
         /\ 0 < mem.ret.val[i] /\ 2 * mem.ret.val[i] < One

\* C9: no call changes the caller's prediction or target array or the
\* instance (its epsilon), and a call repeated with the same inputs returns
\* what the first call returned.
C9_Pure ==
    [][/\ mem'.predict = mem.predict
       /\ mem'.target = mem.target
       /\ obj.family # "none" => obj' = obj
       /\ (lastOp' = lastOp /\ lastOp # "none") => mem'.ret = mem.ret]_vars

W_C9_RepeatedLogValue ==
    /\ repeated
    /\ lastOp = "Log.v_func"
    /\ mem.ret.kind = "array"
    /\ \E i \in 1..Len(mem.predict) : mem.ret.val[i] > One

\* C10: Logistic hessian_diagonal does not depend on the target and is even
\* in the logit: p*(1-p) with p = sigmoid(x) equals q*(1-q) with
\* q = sigmoid(x*target) for target in {-1,+1}; every entry lies in
\* [0, 0.25], and is 0.25 at x = 0.
C10_LogHessianTargetFree ==
    lastOp = "Log.h_func" =>
      /\ mem.ret.kind = "array"
      /\ Len(mem.ret.val) = Len(mem.predict)
      /\ mem.ret = Log_h_func(mem.predict, Neg(mem.target))
      /\ mem.ret = Log_h_func(Neg(mem.predict), mem.target)
      /\ \A i \in 1..Len(mem.predict) :
           LET x == mem.predict[i]
               h == mem.ret.val[i]
           IN  /\ \A t \in {-One, One} :
                    LET q == sigmoid(Mul(x, t))
                    IN  h = Mul(q, One - q)
               /\ 0 <= h /\ 4 * h <= One
               /\ x = 0 => 4 * h = One

W_C10_ZeroLogit ==
    /\ lastOp = "Log.h_func"
    /\ \E i \in 1..Len(mem.predict) :
         /\ i <= Len(mem.target)
         /\ mem.predict[i] = 0
         /\ mem.target[i] = -One
         /\ 4 * mem.ret.val[i] = One
    /\ \E i \in 1..Len(mem.predict) :
         /\ mem.predict[i] # 0
         /\ mem.ret.val[i] > 0

====
